---- MODULE Spec2Model ----
(***************************************************************************)
(* Model of parallel_summation (src/main.cpp): four ways of summing one    *)
(* array of int -- a sequential scan, and three multi-threaded strategies  *)
(* that split the index range over num_threads workers and combine the     *)
(* workers' local sums under a mutex, with an atomic fetch_add, or through *)
(* a vector of per-worker slots summed after the joins.                    *)
(*                                                                         *)
(* Indices are the code's 0-based indices; At() reads a TLA+ sequence at a *)
(* 0-based index.  int is modelled as a two's-complement integer of        *)
(* IntWidth bits: the additions of the code are the machine's wrapping     *)
(* add, which is what the builds of this program emit for `+=` on int and  *)
(* what std::atomic<int>::fetch_add is defined to do.  size_t values       *)
(* (sizes, indices, chunk bounds) stay far below 2^64 and are naturals.    *)
(***************************************************************************)
EXTENDS Integers, Sequences, FiniteSets

\* ---------------------------------------------------------------- bounds
\* Longest array explored.
MaxLen == 3
\* Largest thread count explored.
MaxThreads == 3
\* Width in bits of the modelled int.
IntWidth == 7
\* Leading elements kept in arr for an array of more than MaxLen elements.
MaxLeading == 1

VARIABLES
    args,          \* the command line: the --size and --thread options as zen::cmd_args sees them
    hw,            \* the value std::thread::hardware_concurrency() returned, NoHint until it is called
    size,          \* main: size, as returned by parse_args
    arr,           \* main: std::vector<int> arr, filled before the first strategy: its first
                   \* Len(arr) elements; it has `size` elements, those behind these are 0
    num_threads,   \* main: num_threads, as returned by parse_args
    strategy,      \* which call of main is executing: single, lock, atomic, reduce, report
    mpc,           \* position of the main thread inside that call
    mi,            \* the main thread's loop variable (i of the scan, spawn, join and combine loops)
    sum,           \* the accumulator of the running function: int sum / std::atomic<int> sum / total_sum
    mtx,           \* multi_thread_sum_lock: std::mutex mtx, TRUE when locked
    partial_sums,  \* multi_thread_sum_reduce: std::vector<int> partial_sums
    threads,       \* std::vector<std::thread> threads: one record per spawned worker
    single_sum,    \* main: results, line 141
    lock_sum,
    atomic_sum,
    reduce_sum

vars == <<args, hw, size, arr, num_threads, strategy, mpc, mi, sum, mtx, partial_sums, threads,
          single_sum, lock_sum, atomic_sum, reduce_sum>>

\* ------------------------------------------------------------ int arithmetic
Modulus == 2 ^ IntWidth
INT_MAX == 2 ^ (IntWidth - 1) - 1
INT_MIN == -(2 ^ (IntWidth - 1))

\* Reduction of a mathematical integer to the representable range.
Wrap(x) == ((x - INT_MIN) % Modulus) + INT_MIN

\* A variant of Add that clamps at the ends of the range instead of wrapping.
AddSaturating(a, b) ==
    IF a + b > INT_MAX THEN INT_MAX ELSE IF a + b < INT_MIN THEN INT_MIN ELSE a + b

\* `a += b` on int, and fetch_add on std::atomic<int>.
Add(a, b) == Wrap(a + b)

\* arr[i], partial_sums[i], threads[i] with the code's 0-based index.
At(s, i) == s[i + 1]

\* arr[i] for 0 <= i < arr.size(): an element kept in arr, or one of the zeros
\* behind them.
ArrAt(i) == IF i < Len(arr) THEN At(arr, i) ELSE 0

\* The loop variable after the iteration at index i of a loop that runs up to
\* end: ++i; from the first of the zeros behind the elements kept in arr, the
\* remaining iterations, which add 0 each, are taken together.
next_index(i, end) == IF i < Len(arr) THEN i + 1 ELSE end

\* Values an array element takes in the explored inputs.
Elems == {INT_MIN, 1, INT_MAX}

Arrays == UNION {[1..len -> Elems] : len \in 0..MaxLen}

\* ------------------------------------------------------------ partitioning
\* A variant of chunk_size that rounds the quotient up instead of down.
chunk_size_rounded_up(n, T) == (n + T - 1) \div T

\* size_t chunk_size = n / num_threads;
chunk_size(n, T) == n \div T

\* size_t start = thread_idx * chunk_size;
chunk_start(thread_idx, n, T) == thread_idx * chunk_size(n, T)

\* A variant of chunk_end without the special case of the last worker.
chunk_end_no_remainder(thread_idx, n, T) == (thread_idx + 1) * chunk_size(n, T)

\* size_t end = (thread_idx == num_threads - 1) ? n : (thread_idx + 1) * chunk_size;
chunk_end(thread_idx, n, T) ==
    IF thread_idx = T - 1 THEN n ELSE (thread_idx + 1) * chunk_size(n, T)


\* ------------------------------------------------------------ worker threads
\* A std::thread just constructed by emplace_back in the lock and atomic
\* strategies: its lambda has its argument idx and has not run yet.  joined
\* becomes TRUE when join() has returned for it; tmp is the value read by the
\* load of `sum += local_sum`.
NewThread(idx) ==
    [pc |-> "begin", joined |-> FALSE, idx |-> idx, start |-> 0, end |-> 0, i |-> 0,
     local_sum |-> 0, tmp |-> 0]

\* The same in the reduce strategy: the lambda also holds its copy of i, which
\* selects the slot partial_sums[i] that thread_sum_reduce gets by reference.
NewReduceThread(idx, slot) ==
    [pc |-> "begin", joined |-> FALSE, idx |-> idx, slot |-> slot, start |-> 0, end |-> 0,
     i |-> 0]

\* A variant of WithBounds that gives the remainder to the first worker instead
\* of the last.
WithBoundsRemainderFirst(t) ==
    [t EXCEPT !.pc = "loop",
              !.start = IF t.idx = 0 THEN 0
                        ELSE chunk_start(t.idx, size, num_threads)
                                + (size % num_threads),
              !.end = chunk_end_no_remainder(t.idx, size, num_threads)
                        + (size % num_threads),
              !.i = IF t.idx = 0 THEN 0
                    ELSE chunk_start(t.idx, size, num_threads)
                            + (size % num_threads)]

\* A variant of WithBounds whose loop starts at index 0 instead of start.
WithBoundsLoopFromZero(t) ==
    [t EXCEPT !.pc = "loop",
              !.start = chunk_start(t.idx, size, num_threads),
              !.end = chunk_end(t.idx, size, num_threads),
              !.i = 0]

\* Lines 19-22, 50-53 and 81-84, and the loop's `i = start`: the worker's chunk.
WithBounds(t) ==
    [t EXCEPT !.pc = "loop",
              !.start = chunk_start(t.idx, size, num_threads),
              !.end = chunk_end(t.idx, size, num_threads),
              !.i = chunk_start(t.idx, size, num_threads)]

\* threads with the record of worker k replaced.
SetThread(k, t) == [threads EXCEPT ![k + 1] = t]

\* A variant of loop_continues that stops one element early.
loop_stops_early(i, end) == i + 1 < end

\* The condition `i < end` of the workers' for loops (lines 25, 56, 87).
loop_continues(i, end) == i < end

\* A variant of mutex_available under which lock() waits for ever.
mutex_never_available(m) == FALSE

\* A variant of mutex_available under which lock() never waits.
mutex_never_waits(m) == TRUE

\* std::lock_guard's constructor can proceed: the mutex is not held.
mutex_available(m) == m = FALSE

\* A variant of join_returns under which join() returns at once.
join_never_waits(t) == TRUE

\* t.join() returns once the thread's function has returned.
join_returns(t) == t.pc = "done"

\* A variant of captured_slot in which every lambda refers to the first slot.
captured_first_slot(i) == 0

\* partial_sums[i] with the lambda's by-value capture of the spawn loop's i.
captured_slot(i) == i

\* An option of the command line: absent, present with a value std::stoi rejects
\* (numeric = FALSE), or present with the number `value`.
Absent == [present |-> FALSE, numeric |-> FALSE, value |-> 0]
Malformed == [present |-> TRUE, numeric |-> FALSE, value |-> 0]
Given(v) == [present |-> TRUE, numeric |-> TRUE, value |-> v]

\* hw before hardware_concurrency() has been called.
NoHint == -1

\* Line 119: the size parse_args returns on its default path.
DEFAULT_SIZE == 1000000

\* The values an option of the command line can have, numbers up to m.
ArgValues(m) == {Absent, Malformed} \cup {Given(v) : v \in 0..m}

\* A variant of parse_uses_defaults that asks for both options to be absent.
parse_uses_defaults_when_both_absent(a) == ~a.size.present /\ ~a.thread.present

\* Line 117: the condition of the default path of parse_args.
parse_uses_defaults(a) == ~a.size.present \/ ~a.thread.present

\* The state at line 141 of a run that was given both options: every array of
\* --size elements and every --thread from 1 up.
Init ==
    /\ arr \in Arrays
    /\ num_threads \in 1..MaxThreads
    /\ args = [size |-> Given(Len(arr)), thread |-> Given(num_threads)]
    /\ hw = NoHint
    /\ size = Len(arr)
    /\ strategy = "single"
    /\ mpc = "loop"
    /\ mi = 0
    /\ sum = 0
    /\ mtx = FALSE
    /\ partial_sums = <<>>
    /\ threads = <<>>
    /\ single_sum = 0
    /\ lock_sum = 0
    /\ atomic_sum = 0
    /\ reduce_sum = 0

\* ------------------------------------------------------------ single_thread_sum
\* Lines 12-14: one iteration of the scan.
single_thread_sum_step ==
    /\ strategy = "single" /\ mpc = "loop"
    /\ mi < size
    /\ sum' = Add(sum, ArrAt(mi))
    /\ mi' = next_index(mi, size)
    /\ UNCHANGED <<args, hw, size, arr, num_threads, strategy, mpc, mtx, partial_sums, threads,
                   single_sum, lock_sum, atomic_sum, reduce_sum>>

\* Line 15 and line 144: the scan is over, single_sum receives the result.
single_thread_sum_return ==
    /\ strategy = "single" /\ mpc = "loop"
    /\ mi >= size
    /\ single_sum' = sum
    /\ strategy' = "lock" /\ mpc' = "enter"
    /\ mi' = 0 /\ sum' = 0
    /\ UNCHANGED <<args, hw, size, arr, num_threads, mtx, partial_sums, threads,
                   lock_sum, atomic_sum, reduce_sum>>

\* ------------------------------------------------------------ lock strategy
\* Lines 33-35: threads, mtx, sum = 0.
multi_thread_sum_lock_enter ==
    /\ strategy = "lock" /\ mpc = "enter"
    /\ threads' = <<>> /\ mtx' = FALSE /\ sum' = 0
    /\ mi' = 0 /\ mpc' = "spawn"
    /\ UNCHANGED <<args, hw, size, arr, num_threads, strategy, partial_sums,
                   single_sum, lock_sum, atomic_sum, reduce_sum>>

\* Lines 37-41: the spawn loop; the new thread runs thread_sum_lock(i, ...).
multi_thread_sum_lock_spawn ==
    /\ strategy = "lock" /\ mpc = "spawn"
    /\ \/ /\ mi < num_threads
          /\ threads' = Append(threads, NewThread(mi))
          /\ mi' = mi + 1
          /\ UNCHANGED mpc
       \/ /\ mi >= num_threads
          /\ mpc' = "join" /\ mi' = 0
          /\ UNCHANGED threads
    /\ UNCHANGED <<args, hw, size, arr, num_threads, strategy, sum, mtx, partial_sums,
                   single_sum, lock_sum, atomic_sum, reduce_sum>>

\* A variant of multi_thread_sum_lock_join whose loop leaves out the last thread.
multi_thread_sum_lock_join_skips_last ==
    /\ strategy = "lock" /\ mpc = "join"
    /\ \/ /\ mi < Len(threads) - 1
          /\ join_returns(At(threads, mi))
          /\ threads' = SetThread(mi, [At(threads, mi) EXCEPT !.joined = TRUE])
          /\ mi' = mi + 1
          /\ UNCHANGED mpc
       \/ /\ mi >= Len(threads) - 1
          /\ mpc' = "return" /\ mi' = 0
          /\ UNCHANGED threads
    /\ UNCHANGED <<args, hw, size, arr, num_threads, strategy, sum, mtx, partial_sums,
                   single_sum, lock_sum, atomic_sum, reduce_sum>>

\* Lines 43-45: the join loop; join() blocks until the thread has finished.
multi_thread_sum_lock_join ==
    /\ strategy = "lock" /\ mpc = "join"
    /\ \/ /\ mi < Len(threads)
          /\ join_returns(At(threads, mi))
          /\ threads' = SetThread(mi, [At(threads, mi) EXCEPT !.joined = TRUE])
          /\ mi' = mi + 1
          /\ UNCHANGED mpc
       \/ /\ mi >= Len(threads)
          /\ mpc' = "return" /\ mi' = 0
          /\ UNCHANGED threads
    /\ UNCHANGED <<args, hw, size, arr, num_threads, strategy, sum, mtx, partial_sums,
                   single_sum, lock_sum, atomic_sum, reduce_sum>>

\* Line 46 and line 148: sum is read and returned, the locals are destroyed.
multi_thread_sum_lock_return ==
    /\ strategy = "lock" /\ mpc = "return"
    /\ lock_sum' = sum
    /\ strategy' = "atomic" /\ mpc' = "enter"
    /\ threads' = <<>> /\ sum' = 0 /\ mi' = 0
    /\ UNCHANGED <<args, hw, size, arr, num_threads, mtx, partial_sums,
                   single_sum, atomic_sum, reduce_sum>>

\* Lines 19-24: worker k computes its bounds, local_sum = 0.
thread_sum_lock_begin(k) ==
    /\ strategy = "lock" /\ k < Len(threads)
    /\ At(threads, k).pc = "begin"
    /\ threads' = SetThread(k, [WithBounds(At(threads, k)) EXCEPT !.local_sum = 0])
    /\ UNCHANGED <<args, hw, size, arr, num_threads, strategy, mpc, mi, sum, mtx, partial_sums,
                   single_sum, lock_sum, atomic_sum, reduce_sum>>

\* Lines 25-27: one test of the loop condition, and the body when it holds.
thread_sum_lock_loop(k) ==
    /\ strategy = "lock" /\ k < Len(threads)
    /\ LET t == At(threads, k) IN
        /\ t.pc = "loop"
        /\ \/ /\ loop_continues(t.i, t.end)
              /\ threads' = SetThread(k, [t EXCEPT !.local_sum = Add(@, ArrAt(t.i)),
                                                   !.i = next_index(@, t.end)])
           \/ /\ ~loop_continues(t.i, t.end)
              /\ threads' = SetThread(k, [t EXCEPT !.pc = "lock"])
    /\ UNCHANGED <<args, hw, size, arr, num_threads, strategy, mpc, mi, sum, mtx, partial_sums,
                   single_sum, lock_sum, atomic_sum, reduce_sum>>

\* Line 28: std::lock_guard<std::mutex> lock(mtx).
thread_sum_lock_acquire(k) ==
    /\ strategy = "lock" /\ k < Len(threads)
    /\ At(threads, k).pc = "lock"
    /\ mutex_available(mtx)
    /\ mtx' = TRUE
    /\ threads' = SetThread(k, [At(threads, k) EXCEPT !.pc = "load"])
    /\ UNCHANGED <<args, hw, size, arr, num_threads, strategy, mpc, mi, sum, partial_sums,
                   single_sum, lock_sum, atomic_sum, reduce_sum>>

\* Line 29, first half of `sum += local_sum`: the read of the shared int.
thread_sum_lock_load(k) ==
    /\ strategy = "lock" /\ k < Len(threads)
    /\ At(threads, k).pc = "load"
    /\ threads' = SetThread(k, [At(threads, k) EXCEPT !.tmp = sum, !.pc = "store"])
    /\ UNCHANGED <<args, hw, size, arr, num_threads, strategy, mpc, mi, sum, mtx, partial_sums,
                   single_sum, lock_sum, atomic_sum, reduce_sum>>

\* A variant of thread_sum_lock_store that assigns the local sum to the total.
thread_sum_lock_store_overwrites(k) ==
    /\ strategy = "lock" /\ k < Len(threads)
    /\ At(threads, k).pc = "store"
    /\ sum' = At(threads, k).local_sum
    /\ threads' = SetThread(k, [At(threads, k) EXCEPT !.pc = "unlock"])
    /\ UNCHANGED <<args, hw, size, arr, num_threads, strategy, mpc, mi, mtx, partial_sums,
                   single_sum, lock_sum, atomic_sum, reduce_sum>>

\* Line 29, second half of `sum += local_sum`: the write of the shared int.
thread_sum_lock_store(k) ==
    /\ strategy = "lock" /\ k < Len(threads)
    /\ At(threads, k).pc = "store"
    /\ sum' = Add(At(threads, k).tmp, At(threads, k).local_sum)
    /\ threads' = SetThread(k, [At(threads, k) EXCEPT !.pc = "unlock"])
    /\ UNCHANGED <<args, hw, size, arr, num_threads, strategy, mpc, mi, mtx, partial_sums,
                   single_sum, lock_sum, atomic_sum, reduce_sum>>

\* A variant of thread_sum_lock_release that returns without unlocking.
thread_sum_lock_release_keeps_mutex(k) ==
    /\ strategy = "lock" /\ k < Len(threads)
    /\ At(threads, k).pc = "unlock"
    /\ threads' = SetThread(k, [At(threads, k) EXCEPT !.pc = "done"])
    /\ UNCHANGED <<args, hw, size, arr, num_threads, strategy, mpc, mi, sum, mtx, partial_sums,
                   single_sum, lock_sum, atomic_sum, reduce_sum>>

\* Line 30: the lock_guard's destructor unlocks, the thread function returns.
thread_sum_lock_release(k) ==
    /\ strategy = "lock" /\ k < Len(threads)
    /\ At(threads, k).pc = "unlock"
    /\ mtx' = FALSE
    /\ threads' = SetThread(k, [At(threads, k) EXCEPT !.pc = "done"])
    /\ UNCHANGED <<args, hw, size, arr, num_threads, strategy, mpc, mi, sum, partial_sums,
                   single_sum, lock_sum, atomic_sum, reduce_sum>>


\* ------------------------------------------------------------ atomic strategy
\* A variant of fetch_add that overwrites the total with the operand.
fetch_add_stores(old, v) == v

\* The value sum holds after sum.fetch_add(v, std::memory_order_relaxed).
fetch_add(old, v) == Add(old, v)

\* Lines 63-66: threads, std::atomic<int> sum(0).
multi_thread_sum_atomic_enter ==
    /\ strategy = "atomic" /\ mpc = "enter"
    /\ threads' = <<>> /\ sum' = 0
    /\ mi' = 0 /\ mpc' = "spawn"
    /\ UNCHANGED <<args, hw, size, arr, num_threads, strategy, mtx, partial_sums,
                   single_sum, lock_sum, atomic_sum, reduce_sum>>

\* Lines 68-72: the spawn loop; the new thread runs thread_sum_atomic(i, ...).
multi_thread_sum_atomic_spawn ==
    /\ strategy = "atomic" /\ mpc = "spawn"
    /\ \/ /\ mi < num_threads
          /\ threads' = Append(threads, NewThread(mi))
          /\ mi' = mi + 1
          /\ UNCHANGED mpc
       \/ /\ mi >= num_threads
          /\ mpc' = "join" /\ mi' = 0
          /\ UNCHANGED threads
    /\ UNCHANGED <<args, hw, size, arr, num_threads, strategy, sum, mtx, partial_sums,
                   single_sum, lock_sum, atomic_sum, reduce_sum>>

\* Lines 74-76: the join loop.
multi_thread_sum_atomic_join ==
    /\ strategy = "atomic" /\ mpc = "join"
    /\ \/ /\ mi < Len(threads)
          /\ join_returns(At(threads, mi))
          /\ threads' = SetThread(mi, [At(threads, mi) EXCEPT !.joined = TRUE])
          /\ mi' = mi + 1
          /\ UNCHANGED mpc
       \/ /\ mi >= Len(threads)
          /\ mpc' = "return" /\ mi' = 0
          /\ UNCHANGED threads
    /\ UNCHANGED <<args, hw, size, arr, num_threads, strategy, sum, mtx, partial_sums,
                   single_sum, lock_sum, atomic_sum, reduce_sum>>

\* Line 77 and line 152: sum.load() is returned, the locals are destroyed.
multi_thread_sum_atomic_return ==
    /\ strategy = "atomic" /\ mpc = "return"
    /\ atomic_sum' = sum
    /\ strategy' = "reduce" /\ mpc' = "enter"
    /\ threads' = <<>> /\ sum' = 0 /\ mi' = 0
    /\ UNCHANGED <<args, hw, size, arr, num_threads, mtx, partial_sums,
                   single_sum, lock_sum, reduce_sum>>

\* Lines 50-55: worker k computes its bounds, local_sum = 0.
thread_sum_atomic_begin(k) ==
    /\ strategy = "atomic" /\ k < Len(threads)
    /\ At(threads, k).pc = "begin"
    /\ threads' = SetThread(k, [WithBounds(At(threads, k)) EXCEPT !.local_sum = 0])
    /\ UNCHANGED <<args, hw, size, arr, num_threads, strategy, mpc, mi, sum, mtx, partial_sums,
                   single_sum, lock_sum, atomic_sum, reduce_sum>>

\* Lines 56-58: one test of the loop condition, and the body when it holds.
thread_sum_atomic_loop(k) ==
    /\ strategy = "atomic" /\ k < Len(threads)
    /\ LET t == At(threads, k) IN
        /\ t.pc = "loop"
        /\ \/ /\ loop_continues(t.i, t.end)
              /\ threads' = SetThread(k, [t EXCEPT !.local_sum = Add(@, ArrAt(t.i)),
                                                   !.i = next_index(@, t.end)])
           \/ /\ ~loop_continues(t.i, t.end)
              /\ threads' = SetThread(k, [t EXCEPT !.pc = "fetch_add"])
    /\ UNCHANGED <<args, hw, size, arr, num_threads, strategy, mpc, mi, sum, mtx, partial_sums,
                   single_sum, lock_sum, atomic_sum, reduce_sum>>

\* A variant of thread_sum_atomic_fetch_add that updates the total with a load
\* followed by a separate store, as `sum.store(sum.load() + local_sum)` would.
thread_sum_atomic_load_then_store(k) ==
    /\ strategy = "atomic" /\ k < Len(threads)
    /\ \/ /\ At(threads, k).pc = "fetch_add"
          /\ threads' = SetThread(k, [At(threads, k) EXCEPT !.tmp = sum, !.pc = "store"])
          /\ UNCHANGED sum
       \/ /\ At(threads, k).pc = "store"
          /\ sum' = Add(At(threads, k).tmp, At(threads, k).local_sum)
          /\ threads' = SetThread(k, [At(threads, k) EXCEPT !.pc = "done"])
    /\ UNCHANGED <<args, hw, size, arr, num_threads, strategy, mpc, mi, mtx, partial_sums,
                   single_sum, lock_sum, atomic_sum, reduce_sum>>

\* Lines 59-60: the fetch_add, one indivisible read-modify-write, and the return.
thread_sum_atomic_fetch_add(k) ==
    /\ strategy = "atomic" /\ k < Len(threads)
    /\ At(threads, k).pc = "fetch_add"
    /\ sum' = fetch_add(sum, At(threads, k).local_sum)
    /\ threads' = SetThread(k, [At(threads, k) EXCEPT !.pc = "done"])
    /\ UNCHANGED <<args, hw, size, arr, num_threads, strategy, mpc, mi, mtx, partial_sums,
                   single_sum, lock_sum, atomic_sum, reduce_sum>>

\* ------------------------------------------------------------ reduce strategy
\* Lines 93-96: threads, partial_sums(num_threads, 0).
multi_thread_sum_reduce_enter ==
    /\ strategy = "reduce" /\ mpc = "enter"
    /\ threads' = <<>>
    /\ partial_sums' = [j \in 1..num_threads |-> 0]
    /\ sum' = 0 /\ mi' = 0 /\ mpc' = "spawn"
    /\ UNCHANGED <<args, hw, size, arr, num_threads, strategy, mtx,
                   single_sum, lock_sum, atomic_sum, reduce_sum>>

\* Lines 98-102: the spawn loop; the new thread runs
\* thread_sum_reduce(i, arr, partial_sums[i], num_threads).
multi_thread_sum_reduce_spawn ==
    /\ strategy = "reduce" /\ mpc = "spawn"
    /\ \/ /\ mi < num_threads
          /\ threads' = Append(threads, NewReduceThread(mi, captured_slot(mi)))
          /\ mi' = mi + 1
          /\ UNCHANGED mpc
       \/ /\ mi >= num_threads
          /\ mpc' = "join" /\ mi' = 0
          /\ UNCHANGED threads
    /\ UNCHANGED <<args, hw, size, arr, num_threads, strategy, sum, mtx, partial_sums,
                   single_sum, lock_sum, atomic_sum, reduce_sum>>

\* Lines 104-108: the join loop, then total_sum = 0.
multi_thread_sum_reduce_join ==
    /\ strategy = "reduce" /\ mpc = "join"
    /\ \/ /\ mi < Len(threads)
          /\ join_returns(At(threads, mi))
          /\ threads' = SetThread(mi, [At(threads, mi) EXCEPT !.joined = TRUE])
          /\ mi' = mi + 1
          /\ UNCHANGED <<mpc, sum>>
       \/ /\ mi >= Len(threads)
          /\ mpc' = "combine" /\ mi' = 0 /\ sum' = 0
          /\ UNCHANGED threads
    /\ UNCHANGED <<args, hw, size, arr, num_threads, strategy, mtx, partial_sums,
                   single_sum, lock_sum, atomic_sum, reduce_sum>>

\* Lines 109-111: the main thread adds the slots, in index order.
multi_thread_sum_reduce_combine ==
    /\ strategy = "reduce" /\ mpc = "combine"
    /\ \/ /\ mi < Len(partial_sums)
          /\ sum' = Add(sum, At(partial_sums, mi))
          /\ mi' = mi + 1
          /\ UNCHANGED mpc
       \/ /\ mi >= Len(partial_sums)
          /\ mpc' = "return"
          /\ UNCHANGED <<mi, sum>>
    /\ UNCHANGED <<args, hw, size, arr, num_threads, strategy, mtx, partial_sums, threads,
                   single_sum, lock_sum, atomic_sum, reduce_sum>>

\* Line 112 and line 156: total_sum is returned, the locals are destroyed; main
\* goes on to print the table (lines 159-170).
multi_thread_sum_reduce_return ==
    /\ strategy = "reduce" /\ mpc = "return"
    /\ reduce_sum' = sum
    /\ strategy' = "report" /\ mpc' = "done"
    /\ threads' = <<>> /\ partial_sums' = <<>> /\ sum' = 0 /\ mi' = 0
    /\ UNCHANGED <<args, hw, size, arr, num_threads, mtx, single_sum, lock_sum, atomic_sum>>

\* Lines 81-86: worker k computes its bounds and zeroes its slot.
thread_sum_reduce_begin(k) ==
    /\ strategy = "reduce" /\ k < Len(threads)
    /\ At(threads, k).pc = "begin"
    /\ threads' = SetThread(k, WithBounds(At(threads, k)))
    /\ partial_sums' = [partial_sums EXCEPT ![At(threads, k).slot + 1] = 0]
    /\ UNCHANGED <<args, hw, size, arr, num_threads, strategy, mpc, mi, sum, mtx,
                   single_sum, lock_sum, atomic_sum, reduce_sum>>

\* Lines 87-90: one test of the loop condition; the body adds arr[i] into the
\* slot, the failed test returns from the thread function.
thread_sum_reduce_loop(k) ==
    /\ strategy = "reduce" /\ k < Len(threads)
    /\ LET t == At(threads, k) IN
        /\ t.pc = "loop"
        /\ \/ /\ loop_continues(t.i, t.end)
              /\ partial_sums' = [partial_sums EXCEPT ![t.slot + 1] = Add(@, ArrAt(t.i))]
              /\ threads' = SetThread(k, [t EXCEPT !.i = next_index(@, t.end)])
           \/ /\ ~loop_continues(t.i, t.end)
              /\ threads' = SetThread(k, [t EXCEPT !.pc = "done"])
              /\ UNCHANGED partial_sums
    /\ UNCHANGED <<args, hw, size, arr, num_threads, strategy, mpc, mi, sum, mtx,
                   single_sum, lock_sum, atomic_sum, reduce_sum>>

\* ------------------------------------------------------------ specification
\* Worker indices that can exist.
Workers == 0..(num_threads - 1)

MainStep ==
    \/ single_thread_sum_step
    \/ single_thread_sum_return
    \/ multi_thread_sum_lock_enter
    \/ multi_thread_sum_lock_spawn
    \/ multi_thread_sum_lock_join
    \/ multi_thread_sum_lock_return
    \/ multi_thread_sum_atomic_enter
    \/ multi_thread_sum_atomic_spawn
    \/ multi_thread_sum_atomic_join
    \/ multi_thread_sum_atomic_return
    \/ multi_thread_sum_reduce_enter
    \/ multi_thread_sum_reduce_spawn
    \/ multi_thread_sum_reduce_join
    \/ multi_thread_sum_reduce_combine
    \/ multi_thread_sum_reduce_return

WorkerStep(k) ==
    \/ thread_sum_lock_begin(k)
    \/ thread_sum_lock_loop(k)
    \/ thread_sum_lock_acquire(k)
    \/ thread_sum_lock_load(k)
    \/ thread_sum_lock_store(k)
    \/ thread_sum_lock_release(k)
    \/ thread_sum_atomic_begin(k)
    \/ thread_sum_atomic_loop(k)
    \/ thread_sum_atomic_fetch_add(k)
    \/ thread_sum_reduce_begin(k)
    \/ thread_sum_reduce_loop(k)

Next == MainStep \/ \E k \in Workers : WorkerStep(k)

Spec == Init /\ [][Next]_vars

\* ------------------------------------------------------------ the whole program
\* The process at the entry of main: any command line, nothing computed yet.
MainInit ==
    /\ args \in [size : ArgValues(MaxLen), thread : ArgValues(MaxThreads)]
    /\ hw = NoHint
    /\ size = 0
    /\ arr = <<>>
    /\ num_threads = 0
    /\ strategy = "parse"
    /\ mpc = "parse"
    /\ mi = 0
    /\ sum = 0
    /\ mtx = FALSE
    /\ partial_sums = <<>>
    /\ threads = <<>>
    /\ single_sum = 0
    /\ lock_sum = 0
    /\ atomic_sum = 0
    /\ reduce_sum = 0

\* Lines 115-124 and line 136. On the default path the hint is whatever the
\* platform reports, 0 included. Otherwise std::stoi converts --size, then
\* --thread; on a value that is not a number it throws std::invalid_argument,
\* which nothing catches, and the process is terminated.
parse_args ==
    /\ strategy = "parse"
    /\ IF parse_uses_defaults(args)
         THEN /\ hw' \in 0..MaxThreads
              /\ size' = DEFAULT_SIZE
              /\ num_threads' = hw'
              /\ strategy' = "generate" /\ mpc' = "generate"
         ELSE IF ~args.size.numeric \/ ~args.thread.numeric
         THEN /\ strategy' = "terminate" /\ mpc' = "invalid_argument"
              /\ UNCHANGED <<hw, size, num_threads>>
         ELSE /\ size' = args.size.value
              /\ num_threads' = args.thread.value
              /\ strategy' = "generate" /\ mpc' = "generate"
              /\ UNCHANGED hw
    /\ UNCHANGED <<args, arr, mi, sum, mtx, partial_sums, threads,
                   single_sum, lock_sum, atomic_sum, reduce_sum>>

\* Lines 138-141: the array of `size` random elements. Of the arrays of more
\* than MaxLen elements (the default size) those are explored whose elements
\* behind the first MaxLeading are 0.
generate_random ==
    /\ strategy = "generate"
    /\ arr' \in {a \in Arrays : Len(a) = IF size <= MaxLen THEN size ELSE MaxLeading}
    /\ strategy' = "single" /\ mpc' = "loop"
    /\ UNCHANGED <<args, hw, size, num_threads, mi, sum, mtx, partial_sums, threads,
                   single_sum, lock_sum, atomic_sum, reduce_sum>>

\* Line 66: n / num_threads with num_threads = 0 is undefined. The quotient is
\* never used, so a build may drop the division (multi_thread_sum_atomic_enter
\* goes on) or execute it and trap, as here: the process ends inside the call.
multi_thread_sum_atomic_divide_by_zero ==
    /\ strategy = "atomic" /\ mpc = "enter"
    /\ num_threads = 0
    /\ mpc' = "divide_by_zero"
    /\ UNCHANGED <<args, hw, size, arr, num_threads, strategy, mi, sum, mtx, partial_sums, threads,
                   single_sum, lock_sum, atomic_sum, reduce_sum>>

\* Line 96: the same division in multi_thread_sum_reduce.
multi_thread_sum_reduce_divide_by_zero ==
    /\ strategy = "reduce" /\ mpc = "enter"
    /\ num_threads = 0
    /\ mpc' = "divide_by_zero"
    /\ UNCHANGED <<args, hw, size, arr, num_threads, strategy, mi, sum, mtx, partial_sums, threads,
                   single_sum, lock_sum, atomic_sum, reduce_sum>>

MainNext ==
    \/ parse_args
    \/ generate_random
    \/ multi_thread_sum_atomic_divide_by_zero
    \/ multi_thread_sum_reduce_divide_by_zero
    \/ Next

MainSpec == MainInit /\ [][MainNext]_vars


\* ------------------------------------------------------------ reference values
\* The mathematical sum of a sequence of integers, without any wrapping.
RECURSIVE SeqSum(_)
SeqSum(s) == IF s = <<>> THEN 0 ELSE SeqSum(SubSeq(s, 1, Len(s) - 1)) + s[Len(s)]

\* The left-to-right wrapping sum of a sequence of int.
RECURSIVE WrapSum(_)
WrapSum(s) == IF s = <<>> THEN 0 ELSE Add(WrapSum(SubSeq(s, 1, Len(s) - 1)), s[Len(s)])

ParallelStrategies == {"lock", "atomic", "reduce"}

\* The calls of main that have returned.
Returned(s) ==
    CASE s = "single" -> strategy \in {"lock", "atomic", "reduce", "report"}
      [] s = "lock" -> strategy \in {"atomic", "reduce", "report"}
      [] s = "atomic" -> strategy \in {"reduce", "report"}
      [] s = "reduce" -> strategy = "report"

\* The indices (1-based positions in threads) of the spawned workers.
Spawned == 1..Len(threads)

\* ------------------------------------------------------------ claims

\* C1: for every array and every thread count 1 <= T, under every interleaving,
\* the lock, atomic and reduce strategies each return exactly the value that
\* single_thread_sum returned for the same array.
C1_Equivalence ==
    /\ Returned("lock") => lock_sum = single_sum
    /\ Returned("atomic") => atomic_sum = single_sum
    /\ Returned("reduce") => reduce_sum = single_sum

\* All four calls have returned for an array with several non-zero elements
\* split over several workers.
C1_Witness ==
    /\ strategy = "report"
    /\ num_threads >= 2 /\ Len(arr) >= 2
    /\ single_sum # 0
    /\ reduce_sum = single_sum

\* Worker record t is inside the critical section of thread_sum_lock.
InCriticalSection(t) == t.pc \in {"load", "store", "unlock"}

\* C2: in the lock strategy at most one worker at a time is between acquiring
\* and releasing the mutex, the mutex is held exactly when one is, and the value
\* a worker read from sum is still the value of sum when it writes it back.
C2_MutualExclusion ==
    strategy = "lock" =>
        /\ Cardinality({k \in Spawned : InCriticalSection(threads[k])}) <= 1
        /\ mtx <=> (\E k \in Spawned : InCriticalSection(threads[k]))
        /\ \A k \in Spawned : threads[k].pc = "store" => threads[k].tmp = sum

\* One worker is in the middle of `sum += local_sum` while another one, whose
\* local sum is ready, waits for the mutex.
C2_Witness ==
    /\ strategy = "lock"
    /\ \E a, b \in Spawned :
        /\ a # b
        /\ threads[a].pc = "store"
        /\ threads[b].pc = "lock"
        /\ threads[a].local_sum # 0 /\ threads[b].local_sum # 0


\* The local sums of the spawned workers of the lock or atomic strategy, by index.
LocalSums == [k \in Spawned |-> threads[k].local_sum]

\* Every worker of the running strategy has been spawned, has returned from its
\* thread function and has been joined.
AllWorkersDone ==
    /\ Len(threads) = num_threads
    /\ \A k \in Spawned : threads[k].pc = "done" /\ threads[k].joined

\* When the atomic strategy is about to load the total, it is the sum of the
\* local sums of all T workers.
C3_FinalValue ==
    (strategy = "atomic" /\ mpc = "return") =>
        /\ Len(threads) = num_threads
        /\ sum = WrapSum(LocalSums)

\* The step of the atomic strategy that finishes a worker adds that worker's
\* completed local sum to the total as it stands, nothing else changes the
\* total, and a finished worker takes no further step (it is only joined).
C3_Step ==
    (strategy = "atomic" /\ strategy' = "atomic" /\ mpc # "enter") =>
        /\ \A k \in Spawned :
            (threads[k].pc # "done" /\ threads'[k].pc = "done") =>
                /\ threads[k].i = threads[k].end
                /\ threads[k].end = chunk_end(k - 1, Len(arr), num_threads)
                /\ threads'[k].local_sum = threads[k].local_sum
                /\ sum' = Add(sum, threads[k].local_sum)
        /\ sum' # sum =>
            \E k \in Spawned : threads[k].pc # "done" /\ threads'[k].pc = "done"
        /\ \A k \in Spawned :
            threads[k].pc = "done" =>
                threads'[k] = [threads[k] EXCEPT !.joined = threads'[k].joined]

\* C3: in the atomic strategy each worker performs exactly one fetch_add on the
\* shared total, after its loop has run to the end of its chunk, and whatever the
\* order of the T fetch_adds the total then equals the sum of the T local sums.
C3_AtomicFetchAdd == [](C3_FinalValue) /\ [][C3_Step]_vars

\* All workers of the atomic strategy have added; the later worker's local sum
\* and the total are non-zero.
C3_Witness ==
    /\ strategy = "atomic" /\ mpc = "return"
    /\ num_threads >= 2
    /\ threads[1].local_sum # 0 /\ threads[2].local_sum # 0
    /\ sum # 0


\* The slots of partial_sums that the next step of worker record t accesses.
SlotsAccessedBy(t) ==
    IF t.pc = "begin" \/ (t.pc = "loop" /\ loop_continues(t.i, t.end)) THEN {t.slot} ELSE {}

\* The slots of partial_sums that the next step of the main thread accesses.
SlotsAccessedByMain ==
    IF strategy = "reduce" /\ mpc = "combine" /\ mi < Len(partial_sums) THEN {mi} ELSE {}

\* While the reduce strategy has workers: T slots, worker i holds slot i, no two
\* threads are about to access the same slot, and the main thread is about to
\* access a slot only when every worker has finished.
C4_Slots ==
    (strategy = "reduce" /\ mpc # "enter") =>
        /\ Len(partial_sums) = num_threads
        /\ \A k \in Spawned : threads[k].idx = k - 1 /\ threads[k].slot = k - 1
        /\ \A a, b \in Spawned :
            a # b => SlotsAccessedBy(threads[a]) \cap SlotsAccessedBy(threads[b]) = {}
        /\ \A k \in Spawned : SlotsAccessedBy(threads[k]) \cap SlotsAccessedByMain = {}
        /\ SlotsAccessedByMain # {} => AllWorkersDone

\* While workers may run, a step changes slot j only if it is a step of worker j,
\* and it changes no other slot.
C4_Step ==
    (strategy = "reduce" /\ mpc \in {"spawn", "join"}) =>
        \A j \in 1..Len(partial_sums) :
            partial_sums'[j] # partial_sums[j] =>
                /\ j \in Spawned
                /\ threads'[j].i # threads[j].i \/ threads'[j].pc # threads[j].pc
                /\ \A k \in Spawned \ {j} :
                    threads'[k].i = threads[k].i /\ threads'[k].pc = threads[k].pc
                /\ \A m \in 1..Len(partial_sums) \ {j} : partial_sums'[m] = partial_sums[m]

\* C4: in the reduce strategy the results collection has exactly T slots, worker
\* i writes only slot i, no slot is written by two workers or accessed by two
\* threads at once, and the main thread touches no slot while a worker runs.
C4_PrivateSlots == [](C4_Slots) /\ [][C4_Step]_vars

\* Two workers of the reduce strategy are both about to add an element into
\* their slots, one of which already holds a non-zero partial sum.
C4_Witness ==
    /\ strategy = "reduce" /\ mpc = "join"
    /\ \E a, b \in Spawned :
        /\ a # b
        /\ threads[a].pc = "loop" /\ loop_continues(threads[a].i, threads[a].end)
        /\ threads[b].pc = "loop" /\ loop_continues(threads[b].i, threads[b].end)
        /\ partial_sums[a] # 0

\* The main thread is at a point where it reads the result of a parallel strategy.
MainReadsResult ==
    \/ strategy \in {"lock", "atomic"} /\ mpc = "return"
    \/ strategy = "reduce" /\ mpc \in {"combine", "return"}

\* C5: in each parallel strategy the main thread reads the result (sum in the
\* lock strategy, sum.load() in the atomic strategy, any slot of partial_sums in
\* the reduce strategy) only when all T workers of that call have finished and
\* have been joined.
C5_JoinBeforeRead == MainReadsResult => AllWorkersDone

\* The main thread is about to read the lock strategy's sum, to which several
\* workers have contributed.
C5_Witness ==
    /\ strategy = "lock" /\ mpc = "return"
    /\ num_threads >= 2
    /\ AllWorkersDone
    /\ sum # 0

\* The index set [start, end) of worker record t.
Chunk(t) == t.start..(t.end - 1)

\* The spawned workers that have computed their bounds.
Bounded == {k \in Spawned : threads[k].pc # "begin"}

\* C6: the chunks the workers compute lie inside [0, n) and are pairwise
\* disjoint, and once all T workers have computed theirs every index of [0, n)
\* lies in exactly one chunk and the last chunk ends at n.
C6_Partition ==
    strategy \in ParallelStrategies =>
        /\ \A k \in Bounded :
            /\ threads[k].start = chunk_start(k - 1, Len(arr), num_threads)
            /\ threads[k].end = chunk_end(k - 1, Len(arr), num_threads)
            /\ threads[k].start <= threads[k].end
            /\ threads[k].end <= Len(arr)
        /\ \A a, b \in Bounded : a # b => Chunk(threads[a]) \cap Chunk(threads[b]) = {}
        /\ Cardinality(Bounded) = num_threads =>
            /\ \A j \in 0..(Len(arr) - 1) :
                Cardinality({k \in Bounded : j \in Chunk(threads[k])}) = 1
            /\ UNION {Chunk(threads[k]) : k \in Bounded} = 0..(Len(arr) - 1)
            /\ threads[num_threads].end = Len(arr)

\* All workers have their bounds, for a length that the thread count does not
\* divide and with non-empty chunks for the workers before the last.
C6_Witness ==
    /\ strategy \in ParallelStrategies
    /\ Cardinality(Bounded) = num_threads
    /\ num_threads >= 2
    /\ Len(arr) % num_threads # 0
    /\ chunk_size(Len(arr), num_threads) >= 1


\* The value that main has stored for strategy s.
Result(s) ==
    CASE s = "single" -> single_sum
      [] s = "lock" -> lock_sum
      [] s = "atomic" -> atomic_sum
      [] s = "reduce" -> reduce_sum

\* The wrapping sum of the elements of a in the chunk of worker idx out of T.
ChunkSum(a, T, idx) ==
    WrapSum(SubSeq(a, chunk_start(idx, Len(a), T) + 1, chunk_end(idx, Len(a), T)))

\* The chunk sums of a for T workers, added in index order: a value fixed by the
\* array and the thread count alone.
ScheduleFreeTotal(a, T) == WrapSum([k \in 1..T |-> ChunkSum(a, T, k - 1)])

\* C7: the total returned by the atomic strategy, and the total returned by the
\* reduce strategy, is determined by the array and the thread count alone, so
\* that two executions on the same array and T return the same total under any
\* two schedules.  (Stated as: the total is a function of the inputs.)
C7_Determinism ==
    /\ Returned("atomic") => atomic_sum = ScheduleFreeTotal(arr, num_threads)
    /\ Returned("reduce") => reduce_sum = ScheduleFreeTotal(arr, num_threads)

\* A schedule of the atomic strategy in which the second worker has added its
\* non-zero local sum before the first worker, whose local sum is ready too.
C7_Witness ==
    /\ strategy = "atomic"
    /\ Len(threads) >= 2
    /\ threads[2].pc = "done" /\ threads[2].local_sum # 0
    /\ threads[1].pc = "fetch_add" /\ threads[1].local_sum # 0
    /\ sum = threads[2].local_sum

\* C8: with wrapping addition all four strategies return the same value, the
\* mathematical sum of the array reduced modulo 2^IntWidth into the range of
\* int, also when a local sum, an intermediate total or the final total leaves
\* that range.
C8_WrappedAgreement ==
    \A s \in {"single"} \cup ParallelStrategies :
        Returned(s) => Result(s) = Wrap(SeqSum(arr))

\* All four calls have returned for an array whose mathematical sum exceeds
\* INT_MAX and one of whose chunks already has a sum outside the range of int.
C8_Witness ==
    /\ strategy = "report"
    /\ num_threads >= 2
    /\ SeqSum(arr) > INT_MAX
    /\ \E idx \in Workers :
        LET c == SeqSum(SubSeq(arr, chunk_start(idx, Len(arr), num_threads) + 1,
                               chunk_end(idx, Len(arr), num_threads)))
        IN  c > INT_MAX \/ c < INT_MIN
    /\ reduce_sum = Wrap(SeqSum(arr))
    /\ reduce_sum # SeqSum(arr)

\* What worker k has contributed or will contribute to the total.
Contribution(k) ==
    IF strategy = "reduce" THEN partial_sums[threads[k].slot + 1] ELSE threads[k].local_sum

\* C9: when T > n, chunk_size is 0, every worker but the last has an empty chunk,
\* never advances its loop variable (reads no element) and contributes 0, no
\* worker reads outside the array, and each parallel strategy returns the sum of
\* all n elements.
C9_EmptyChunks ==
    num_threads > Len(arr) =>
        /\ chunk_size(Len(arr), num_threads) = 0
        /\ strategy \in ParallelStrategies =>
            \A k \in Spawned :
                /\ (threads[k].pc = "loop" /\ loop_continues(threads[k].i, threads[k].end))
                        => threads[k].i < Len(arr)
                /\ (k \in Bounded /\ threads[k].idx < num_threads - 1) =>
                    /\ threads[k].start = threads[k].end
                    /\ threads[k].i = threads[k].start
                    /\ Contribution(k) = 0
        /\ \A s \in ParallelStrategies : Returned(s) => Result(s) = WrapSum(arr)

\* All strategies have returned the non-zero sum of a two-element array split
\* over more workers than it has elements.
C9_Witness ==
    /\ strategy = "report"
    /\ Len(arr) >= 2
    /\ num_threads > Len(arr)
    /\ lock_sum # 0
    /\ lock_sum = atomic_sum /\ atomic_sum = reduce_sum

\* C10: for an empty array every strategy returns 0 and for a one-element array
\* every strategy returns arr[0], for every thread count.
C10_DegenerateSizes ==
    \A s \in {"single"} \cup ParallelStrategies :
        Returned(s) =>
            /\ Len(arr) = 0 => Result(s) = 0
            /\ Len(arr) = 1 => Result(s) = At(arr, 0)

\* All four calls have returned arr[0] for a one-element array and several workers.
C10_Witness ==
    /\ strategy = "report"
    /\ Len(arr) = 1
    /\ num_threads >= 2
    /\ \A s \in {"single"} \cup ParallelStrategies : Result(s) = At(arr, 0)


\* ------------------------------------------------------------ scheduling
\* The inputs of the termination check: every length and thread count of Init,
\* with all elements equal (which step a thread can take next never depends on
\* the values of the elements).
FairInit == Init /\ \A j \in 1..Len(arr) : arr[j] = 1

\* The program under a fair scheduler: the main thread, and every worker that
\* can take a step, eventually takes one.  A worker waiting in lock() is
\* continuously able to step only while the mutex is free.
FairSpec ==
    /\ FairInit /\ [][Next]_vars
    /\ WF_vars(MainStep)
    /\ \A k \in 0..(MaxThreads - 1) : WF_vars(WorkerStep(k))

\* Main has returned from all four calls and is at the report (lines 159-170).
Finished == strategy = "report"

\* Worker record t waits for a mutex that is held.
BlockedOnMutex(t) == t.pc = "lock" /\ ~mutex_available(mtx)

\* The worker at position k of threads is a lock-strategy worker waiting so.
WaitsForMutex(k) == strategy = "lock" /\ k \in Spawned /\ BlockedOnMutex(threads[k])

\* The worker at position k of threads has acquired the mutex or gone past it.
HasAcquired(k) ==
    strategy # "lock" \/ (k \in Spawned /\ threads[k].pc \in {"load", "store", "unlock", "done"})

\* C11: for every array and every thread count >= 1, under fair scheduling each
\* parallel strategy terminates: a worker waiting for the mutex acquires it,
\* every worker finishes, every join returns, and main reaches the report; no
\* state short of the report is without a successor.
C11_Termination ==
    /\ [](Finished \/ ENABLED Next)
    /\ \A k \in 1..MaxThreads :
        [](WaitsForMutex(k) => <>HasAcquired(k))
    /\ <>Finished

\* A worker of the lock strategy waits for the mutex while another holds it.
C11_Witness ==
    /\ strategy = "lock"
    /\ \E a, b \in Spawned :
        /\ BlockedOnMutex(threads[a])
        /\ InCriticalSection(threads[b])


\* The order in which main makes its calls (lines 143-157), then the report.
CallOrder ==
    {<<"single", "lock">>, <<"lock", "atomic">>, <<"atomic", "reduce">>, <<"reduce", "report">>}

\* Workers exist only inside a parallel call, none when it is entered, never
\* more than T, and all T once the spawn loop is over.
C12_OwnWorkers ==
    /\ strategy \notin ParallelStrategies => threads = <<>>
    /\ mpc = "enter" => threads = <<>>
    /\ Len(threads) <= num_threads
    /\ (strategy \in ParallelStrategies /\ mpc \notin {"enter", "spawn"})
            => Len(threads) = num_threads

\* Every step keeps the array and the thread count; a step that ends a call
\* goes to the next call of the order, ends a parallel call only when all its
\* workers have finished and are joined, and leaves no worker behind.
C12_Step ==
    /\ arr' = arr /\ num_threads' = num_threads
    /\ strategy' # strategy =>
        /\ <<strategy, strategy'>> \in CallOrder
        /\ strategy \in ParallelStrategies => AllWorkersDone
        /\ threads' = <<>>

\* C12: main runs single, lock, atomic, reduce in this order on the same array
\* and thread count; each parallel strategy spawns its own T workers, which have
\* all terminated before the next strategy starts, so workers of two strategies
\* are never alive together.
C12_FixedOrder == [](C12_OwnWorkers) /\ [][C12_Step]_vars

\* The lock strategy has returned a non-zero sum and a worker of the atomic
\* strategy is running.
C12_Witness ==
    /\ strategy = "atomic" /\ mpc = "join"
    /\ lock_sum # 0
    /\ \E k \in Spawned : threads[k].pc \in {"loop", "fetch_add"}


\* main is past parse_args.
Parsed == strategy # "parse"

\* C13: when an option is absent the thread count given to the strategies is
\* the hardware concurrency hint, or 1 when the hint is 0; so no parallel
\* strategy is ever invoked with a thread count of 0.
C13_DefaultThreadCount ==
    /\ (Parsed /\ parse_uses_defaults(args)) =>
            num_threads = (IF hw = 0 THEN 1 ELSE hw)
    /\ strategy \in ParallelStrategies => num_threads >= 1

\* C14: a parallel strategy invoked with num_threads = 0 ends in an error
\* state; none of the three returns a total.
C14_FailsFast ==
    num_threads = 0 => \A s \in ParallelStrategies : ~Returned(s)

\* The process has ended by std::terminate or by a trap.
ProcessFailed == strategy = "terminate" \/ mpc = "divide_by_zero"

\* An option is missing, or present with a value that is not a number.
ConfigurationDefect(a) ==
    \/ ~a.size.present \/ ~a.thread.present
    \/ ~a.size.numeric \/ ~a.thread.numeric

\* C15: with a missing or malformed size or thread argument the process never
\* fails: the defaults are substituted and the run goes on to its report.
C15_NoProcessFailure ==
    ConfigurationDefect(args) =>
        /\ ~ProcessFailed
        /\ Parsed => (size = DEFAULT_SIZE /\ hw # NoHint)


\* C20: parse_args returns the values of the command line only when both
\* --size and --thread are present (std::stoi is reached only then); with just
\* one of them the supplied value is discarded and both defaults, size
\* 1,000,000 and the hardware concurrency hint, are returned.
C20_BothOrDefaults ==
    Parsed =>
        /\ mpc = "invalid_argument" => (args.size.present /\ args.thread.present)
        /\ mpc # "invalid_argument" =>
            IF args.size.present /\ args.thread.present
            THEN /\ size = args.size.value
                 /\ num_threads = args.thread.value
                 /\ hw = NoHint
            ELSE /\ size = DEFAULT_SIZE
                 /\ hw # NoHint
                 /\ num_threads = hw

\* A run given only --thread 1 has reported, on the default size and with a
\* hint of 2 threads.
C20_Witness ==
    /\ strategy = "report"
    /\ ~args.size.present
    /\ args.thread = Given(1)
    /\ size = DEFAULT_SIZE
    /\ num_threads = 2


\* Worker record t is past the construction of its lock_guard.
PastAcquire(t) == t.pc \in {"load", "store", "unlock", "done"}

\* A worker that waits for or holds the mutex has read its whole chunk; a worker
\* that has returned does not hold the mutex; with every worker done and joined
\* the mutex is free.
C16_Held ==
    strategy = "lock" =>
        /\ \A k \in Spawned :
            (threads[k].pc = "lock" \/ InCriticalSection(threads[k])) =>
                threads[k].i = threads[k].end
        /\ (\A k \in Spawned : threads[k].pc = "done") => ~mtx
        /\ AllWorkersDone => ~mtx

\* While a worker holds the mutex its loop variable and its local sum stay as
\* they are; the mutex is taken only by a worker stepping from the acquire to
\* the load, which never comes back to the acquire; and a worker becomes done
\* only from the unlock, by a step that frees the mutex.
C16_Step ==
    (strategy = "lock" /\ strategy' = "lock") =>
        /\ \A k \in Spawned :
            /\ InCriticalSection(threads[k]) =>
                /\ threads'[k].i = threads[k].i
                /\ threads'[k].local_sum = threads[k].local_sum
            /\ PastAcquire(threads[k]) => PastAcquire(threads'[k])
            /\ (~PastAcquire(threads[k]) /\ PastAcquire(threads'[k])) =>
                /\ threads[k].pc = "lock" /\ threads'[k].pc = "load"
                /\ ~mtx /\ mtx'
            /\ (threads[k].pc # "done" /\ threads'[k].pc = "done") =>
                /\ threads[k].pc = "unlock"
                /\ mtx /\ ~mtx'
        /\ (~mtx /\ mtx') =>
            Cardinality({k \in Spawned : ~PastAcquire(threads[k]) /\ PastAcquire(threads'[k])}) = 1

\* C16: in the lock strategy a worker holds the mutex only for its one add into
\* the shared total: it reads no array element while holding it, it acquires it
\* exactly once, and it has released it when it terminates, so that the mutex
\* is free once all workers are joined.
C16_MutexOnlyForAdd == [](C16_Held) /\ [][C16_Step]_vars

\* All workers of the lock strategy, at least two with non-empty chunks, have
\* added to the total and are joined, and the mutex is free.
C16_Witness ==
    /\ strategy = "lock" /\ mpc = "return"
    /\ AllWorkersDone
    /\ ~mtx
    /\ Cardinality({k \in Spawned : threads[k].end > threads[k].start}) >= 2


\* C17: a worker's local sum is written exactly once by its owner and read
\* exactly once by the aggregation, with no concurrent writer; in the reduce
\* strategy slot i receives one write, from worker i, before the join, and one
\* read, by the driver, after it.  Stated on the slots: once worker i has made
\* its first write no further write of its slot is due, so the slot holds its
\* initial 0 or the finished chunk sum and no value in between; and the driver
\* reads a slot only when every worker is done and joined.
C17_WrittenOnce ==
    (strategy = "reduce" /\ mpc # "enter") =>
        /\ \A k \in Spawned :
            /\ threads[k].pc # "begin" => SlotsAccessedBy(threads[k]) = {}
            /\ partial_sums[k] \in {0, ChunkSum(arr, num_threads, k - 1)}
        /\ SlotsAccessedByMain # {} => AllWorkersDone


\* The documented scenario: arr = [1..8] summed by four threads.
ScenarioArr == <<1, 2, 3, 4, 5, 6, 7, 8>>
ScenarioInit ==
    /\ arr = ScenarioArr
    /\ num_threads = 4
    /\ args = [size |-> Given(Len(arr)), thread |-> Given(num_threads)]
    /\ hw = NoHint
    /\ size = Len(arr)
    /\ strategy = "single"
    /\ mpc = "loop"
    /\ mi = 0
    /\ sum = 0
    /\ mtx = FALSE
    /\ partial_sums = <<>>
    /\ threads = <<>>
    /\ single_sum = 0
    /\ lock_sum = 0
    /\ atomic_sum = 0
    /\ reduce_sum = 0

\* The runs of Spec and the run of the scenario.
ScenarioSpec == (Init \/ ScenarioInit) /\ [][Next]_vars

\* The number of elements assigned to worker record t.
Assigned(t) == t.end - t.start

\* The local sum of a worker that has finished its loop.
FinishedLocalSum(k) ==
    IF strategy = "reduce" THEN partial_sums[k] ELSE threads[k].local_sum

\* Worker k (1-based) has executed its whole loop.
LoopFinished(k) ==
    IF strategy = "reduce" THEN threads[k].pc = "done"
    ELSE threads[k].pc \notin {"begin", "loop"}

\* C18: for every n >= 0 and T >= 1 each worker i < T-1 is assigned exactly
\* floor(n/T) elements and the last worker floor(n/T) + (n mod T), the whole
\* remainder; for arr = [1..8] and T = 4 the chunks are [0,2), [2,4), [4,6),
\* [6,8), the local sums 3, 7, 11, 15 and every total 36.
C18_RemainderToLast ==
    /\ strategy \in ParallelStrategies =>
        \A k \in Bounded :
            LET t == threads[k]
                n == Len(arr)
            IN  /\ t.idx < num_threads - 1 => Assigned(t) = n \div num_threads
                /\ t.idx = num_threads - 1 =>
                        Assigned(t) = (n \div num_threads) + (n % num_threads)
    /\ (arr = ScenarioArr /\ num_threads = 4) =>
        /\ strategy \in ParallelStrategies =>
            /\ \A k \in Bounded :
                threads[k].start = 2 * (k - 1) /\ threads[k].end = 2 * k
            /\ \A k \in Spawned :
                LoopFinished(k) => FinishedLocalSum(k) = <<3, 7, 11, 15>>[k]
        /\ \A s \in {"single", "lock", "atomic", "reduce"} :
            Returned(s) => Result(s) = 36

\* Three elements for two workers: the first has one element, the last has two,
\* and both have computed their chunks.
C18_Witness ==
    /\ strategy \in ParallelStrategies
    /\ Len(arr) = 3 /\ num_threads = 2
    /\ Len(threads) = 2
    /\ threads[1].pc = "done" /\ threads[2].pc = "done"
    /\ Assigned(threads[1]) = 1 /\ Assigned(threads[2]) = 2


\* Worker record t of strategy s has made its add into the shared total: in the
\* lock strategy the write of `sum += local_sum` is done, in the atomic strategy
\* the fetch_add is.
Committed(s, t) ==
    IF s = "lock" THEN t.pc \in {"unlock", "done"} ELSE t.pc = "done"

\* The wrapped sum of the local sums of the committed workers.
CommittedTotal ==
    WrapSum([k \in Spawned |->
                IF Committed(strategy, threads[k]) THEN threads[k].local_sum ELSE 0])

\* The shared total is the wrapped sum of the committed local sums.
C19_Total ==
    (strategy \in {"lock", "atomic"} /\ mpc # "enter") => sum = CommittedTotal

\* A committed worker stays committed with the local sum it committed, and a
\* step commits at most one worker.
C19_Step ==
    (strategy \in {"lock", "atomic"} /\ strategy' = strategy) =>
        /\ \A k \in Spawned :
            Committed(strategy, threads[k]) =>
                /\ Committed(strategy, threads'[k])
                /\ threads'[k].local_sum = threads[k].local_sum
        /\ Cardinality({k \in Spawned :
                ~Committed(strategy, threads[k]) /\ Committed(strategy, threads'[k])}) <= 1

\* C19: in the lock and atomic strategies the shared total is, in every
\* reachable state, the wrapped sum of the local sums of exactly the workers
\* that have committed their add: 0 before the first commit, each worker
\* commits once, and no value mixes one worker's half-done read-modify-write
\* with another's.
C19_CommittedSum == [](C19_Total) /\ [][C19_Step]_vars

\* One worker of the lock strategy has committed a non-zero local sum and has
\* returned; another has read the total and is about to write it.
C19_Witness ==
    /\ strategy = "lock"
    /\ \E a, b \in Spawned :
        /\ threads[a].pc = "done" /\ threads[a].local_sum # 0
        /\ threads[b].pc = "store" /\ threads[b].local_sum # 0
        /\ threads[b].tmp = sum /\ sum # 0

====
